---- MODULE Spec2Model ----
(***************************************************************************)
(* MongoDBManager (app/db/mongo.py) and the token service built on it      *)
(* (app/services/tokens.py) as a state machine.                            *)
(*                                                                         *)
(* Every coroutine is cut at its await points.  A task that awaits a store *)
(* call sits at the label of that call with a pending response; StoreExec  *)
(* lets the store execute the call (or fail it) and records the response;  *)
(* Resume runs the coroutine from the response to its next await, or to    *)
(* its end.  Code between two awaits runs without interruption, as on the  *)
(* asyncio event loop.                                                     *)
(***************************************************************************)
EXTENDS Integers, Sequences, FiniteSets, TLC

----------------------------------------------------------------------------
(* Bounds of the model *)

MaxTime == 2
MaxClients == 2
MaxIds == 2
MaxFaults == 1

(* Settings *)

CleanupInterval == 2
LongCleanupInterval == 3
mongodb_collection == "measurements"
api_tokens_collection == "api_tokens"
time_index_name == "timestamp_1"
system_databases == {"admin", "config", "local"}
mongodb_database == "db1"
api_admin_token == "admin_token"

(* Names drawn by the environment *)

Tenants == {"db1", "db2"}
ServerNames == Tenants \cup {"admin"}
Hashes == {"h1"}
Ttls == {0, 1}
Tasks == {"t1", "t2"}

NoClient == 0
NoExpiry == -1

----------------------------------------------------------------------------
(* Python dicts.  A dict that the code never iterates is a function on its *)
(* keys; token_collection_cache, which is iterated in insertion order, is  *)
(* a sequence of <<key, value>> pairs.                                     *)

EmptyMap == << >>
MapPut(f, k, v) == [x \in (DOMAIN f) \cup {k} |-> IF x = k THEN v ELSE f[x]]
MapPop(f, k) == [x \in (DOMAIN f) \ {k} |-> f[x]]

DictKeys(d) == {d[i][1] : i \in DOMAIN d}
DictGet(d, k) == d[CHOOSE i \in DOMAIN d : d[i][1] = k][2]
DictPut(d, k, v) ==
    IF k \in DictKeys(d)
    THEN [i \in DOMAIN d |-> IF d[i][1] = k THEN <<k, v>> ELSE d[i]]
    ELSE Append(d, <<k, v>>)

(* Handles: client[database_name] and database[collection_name] *)

DatabaseOf(c, d) == [client |-> c, name |-> d]
CollectionOf(database, coll) == [client |-> database.client, db |-> database.name, coll |-> coll]
NoDatabase == [client |-> NoClient, name |-> "none"]
NoCollection == [client |-> NoClient, db |-> "none", coll |-> "none"]

PlainIndex == [key |-> "timestamp", expireAfterSeconds |-> FALSE, partialFilterExpression |-> FALSE]

----------------------------------------------------------------------------
VARIABLES
    client,                      \* MongoDBManager._client (NoClient: None)
    database_cache,              \* _database_cache
    collection_cache,            \* _collection_cache
    token_collection_cache,      \* _token_collection_cache
    token_hash_cache,            \* _token_hash_cache
    timeseries_cleanup_tracker,  \* _timeseries_cleanup_tracker
    token_cleanup_tracker,       \* _token_cleanup_tracker
    tasks,                       \* the coroutines in flight
    srvColls,                    \* store: collections of each database
    srvIdx,                      \* store: indexes of each measurement collection
    srvTokIdx,                   \* store: indexes of each token collection
    srvMeas,                     \* store: documents of each measurement collection
    srvTok,                      \* store: documents of each token collection
    probed,                      \* store: the clients whose liveness probe succeeded
    faults,                      \* store: the calls that have failed so far
    now,                         \* the clock
    nextClient,                  \* clients constructed so far
    nextId,                      \* document ids assigned so far
    settings,                    \* get_settings(): fixed when the process starts
    fetched                      \* history: when a collection of each database
                                 \* was last handed out

mgrVars == <<client, database_cache, collection_cache, token_collection_cache,
             token_hash_cache, timeseries_cleanup_tracker, token_cleanup_tracker>>
srvVars == <<srvColls, srvIdx, srvTokIdx, srvMeas, srvTok, probed, faults>>
vars == <<mgrVars, tasks, srvVars, now, nextClient, nextId, settings, fetched>>

NoResp == [st |-> "none", names |-> {}, idx |-> EmptyMap, docs |-> {}]
Pending == [NoResp EXCEPT !.st = "pending"]

NoResult == [kind |-> "none", coll |-> NoCollection, docs |-> {}, colls |-> << >>]

IdleTask ==
    [op |-> "idle", pc |-> "idle", resp |-> NoResp, site |-> << >>,
     name |-> "none", h |-> "none", ttl |-> 0, id |-> 0, probe |-> NoClient,
     cached_database |-> "none", absent |-> FALSE,
     database |-> NoDatabase, collection |-> NoCollection,
     snow |-> 0, last_run |-> NoExpiry, sweeps |-> 0, expired |-> {}, todo |-> << >>, targets |-> << >>,
     seen |-> {}, filter |-> "none", doc |-> {},
     idx |-> EmptyMap, result |-> NoResult, log |-> {}, fault |-> FALSE]

(* The manager as seen by one running coroutine t *)
Machine(t) ==
    [client |-> client,
     database_cache |-> database_cache,
     collection_cache |-> collection_cache,
     token_collection_cache |-> token_collection_cache,
     token_hash_cache |-> token_hash_cache,
     timeseries_cleanup_tracker |-> timeseries_cleanup_tracker,
     token_cleanup_tracker |-> token_cleanup_tracker,
     clientsMade |-> nextClient,
     t |-> tasks[t]]

Commit(t, M) ==
    /\ client' = M.client
    /\ database_cache' = M.database_cache
    /\ collection_cache' = M.collection_cache
    /\ token_collection_cache' = M.token_collection_cache
    /\ token_hash_cache' = M.token_hash_cache
    /\ timeseries_cleanup_tracker' = M.timeseries_cleanup_tracker
    /\ token_cleanup_tracker' = M.token_cleanup_tracker
    /\ nextClient' = M.clientsMade
    /\ tasks' = [tasks EXCEPT ![t] = M.t]
    /\ fetched' = IF /\ M.t.pc = "done"
                     /\ M.t.op \in {"get_timeseries_collection", "get_token_collection"}
                     /\ M.t.result.kind = "ok"
                  THEN [fetched EXCEPT ![M.t.name] = now]
                  ELSE fetched

(* The coroutine awaits a store call: at `label`, response pending *)
Await(M, label, db) ==
    [M EXCEPT !.t.pc = label, !.t.resp = Pending,
              !.t.log = @ \cup {<<label, db>>}]

(* The top-level coroutine ends: with a value, or with an exception *)
Done(M, kind) ==
    [M EXCEPT !.t = [IdleTask EXCEPT !.op = M.t.op, !.pc = "done",
                                     !.name = M.t.name, !.h = M.t.h, !.ttl = M.t.ttl,
                                     !.id = M.t.id, !.filter = M.t.filter,
                                     !.result = [M.t.result EXCEPT !.kind = kind],
                                     !.snow = M.t.snow, !.last_run = M.t.last_run,
                                     !.sweeps = M.t.sweeps,
                                     !.cached_database = M.t.cached_database,
                                     !.absent = M.t.absent,
                                     !.log = M.t.log, !.fault = M.t.fault]]

Push(M, s) == [M EXCEPT !.t.site = <<s>> \o @]
Max(a, b) == IF a >= b THEN a ELSE b

RECURSIVE Return(_), Raise(_, _)

----------------------------------------------------------------------------
(* MongoDBManager.connect / close *)

ClearCaches(M) ==
    [M EXCEPT !.database_cache = EmptyMap,
              !.collection_cache = EmptyMap,
              !.token_collection_cache = << >>,
              !.token_hash_cache = EmptyMap,
              !.timeseries_cleanup_tracker = EmptyMap,
              !.token_cleanup_tracker = EmptyMap]

connect_without_guard(M) ==
    Await([M EXCEPT !.client = M.clientsMade + 1, !.clientsMade = @ + 1,
                    !.t.probe = M.clientsMade + 1],
          "server_info", "none")

connect(M) ==
    IF M.client # NoClient
    THEN Return(M)
    ELSE Await([M EXCEPT !.client = M.clientsMade + 1, !.clientsMade = @ + 1,
                         !.t.probe = M.clientsMade + 1],
               "server_info", "none")

connect_probed(M) ==
    CASE M.t.resp.st = "ServerSelectionTimeoutError" -> Raise(M, "MongoConnectionError")
      [] M.t.resp.st = "PyMongoError" -> Raise(M, "PyMongoError")
      [] OTHER -> Return(ClearCaches(M))

close(M) ==
    IF M.client # NoClient
    THEN Return([M EXCEPT !.client = NoClient,
                          !.database_cache = EmptyMap,
                          !.collection_cache = EmptyMap,
                          !.token_collection_cache = << >>,
                          !.token_hash_cache = EmptyMap])
    ELSE Return(M)

----------------------------------------------------------------------------
(* MongoDBManager._get_database(database_name), database_name in t.name *)

get_database(M) ==
    IF M.client = NoClient
    THEN Raise(M, "MongoConnectionError")
    ELSE IF M.t.name \in DOMAIN M.database_cache
    THEN Return([M EXCEPT !.t.database = M.database_cache[M.t.name]])
    ELSE Await([M EXCEPT !.t.database = DatabaseOf(M.client, M.t.name)],
               "gd_list_database_names", "none")

get_database_listed(M) ==
    IF M.t.resp.st # "ok"
    THEN Raise(M, "PyMongoError")
    ELSE Return([M EXCEPT !.database_cache = MapPut(@, M.t.name, M.t.database)])

----------------------------------------------------------------------------
(* MongoDBManager._ensure_indexes(collection), collection in t.collection *)

ensure_indexes(M) == Await(M, "ei_index_information", M.t.collection.db)

NeedsRecreation_ignoring_partial_filter(existing_index) ==
    \/ existing_index.key # PlainIndex.key
    \/ existing_index.expireAfterSeconds

NeedsRecreation(existing_index) ==
    \/ existing_index.key # PlainIndex.key
    \/ existing_index.expireAfterSeconds
    \/ existing_index.partialFilterExpression

ExistingTtlName(existing_indexes) ==
    IF "expires_at_ttl" \in DOMAIN existing_indexes THEN "expires_at_ttl"
    ELSE IF "expires_at_1" \in DOMAIN existing_indexes THEN "expires_at_1"
    ELSE "none"

ensure_indexes_ttl(M) ==
    IF ExistingTtlName(M.t.idx) # "none"
    THEN Await(M, "ei_drop_ttl", M.t.collection.db)
    ELSE Return(M)

ensure_indexes_inspected(M) ==
    IF M.t.resp.st # "ok"
    THEN Raise(M, "MongoConnectionError")
    ELSE LET M1 == [M EXCEPT !.t.idx = M.t.resp.idx]
         IN  IF time_index_name \notin DOMAIN M1.t.idx
             THEN Await(M1, "ei_create_index", M.t.collection.db)
             ELSE IF NeedsRecreation(M1.t.idx[time_index_name])
             THEN Await(M1, "ei_drop_index", M.t.collection.db)
             ELSE ensure_indexes_ttl(M1)

ensure_indexes_created_ignoring_failure(M) == ensure_indexes_ttl(M)

ensure_indexes_created(M) ==
    IF M.t.resp.st # "ok" THEN Raise(M, "MongoConnectionError") ELSE ensure_indexes_ttl(M)

ensure_indexes_dropped(M) ==
    IF M.t.resp.st # "ok"
    THEN Raise(M, "MongoConnectionError")
    ELSE Await(M, "ei_recreate_index", M.t.collection.db)

ensure_indexes_ttl_dropped(M) ==
    IF M.t.resp.st # "ok" THEN Raise(M, "MongoConnectionError") ELSE Return(M)

----------------------------------------------------------------------------
(* MongoDBManager._ensure_timeseries_collection(database, database_name) *)

ensure_timeseries_collection(M) ==
    Await(M, "ets_list_collection_names", M.t.database.name)

ensure_timeseries_collection_open(M) ==
    ensure_indexes(Push([M EXCEPT !.t.collection =
                             CollectionOf(M.t.database, mongodb_collection)],
                        "ets_idx"))

ensure_timeseries_collection_listed(M) ==
    IF M.t.resp.st # "ok"
    THEN Raise(M, "PyMongoError")
    ELSE IF mongodb_collection \notin M.t.resp.names
    THEN Await(M, "ets_create_collection", M.t.database.name)
    ELSE ensure_timeseries_collection_open(M)

ensure_timeseries_collection_created(M) ==
    IF M.t.resp.st \in {"ok", "CollectionInvalid"}
    THEN ensure_timeseries_collection_open(M)
    ELSE Raise(M, "PyMongoError")

ensure_timeseries_collection_cache_shared(M) ==
    Return([M EXCEPT !.collection_cache = MapPut(@, "db1", M.t.collection)])

ensure_timeseries_collection_cache(M) ==
    Return([M EXCEPT !.collection_cache = MapPut(@, M.t.name, M.t.collection)])

----------------------------------------------------------------------------
(* MongoDBManager._should_run_cleanup: the verdict and the tracker after it *)

(* tracker.get(key), None as NoExpiry *)
LastRun(tracker, key) == IF key \in DOMAIN tracker THEN tracker[key] ELSE NoExpiry

should_run_cleanup_strict(tracker, key, tnow, interval_seconds) ==
    LET stamped == [run |-> TRUE, tracker |-> MapPut(tracker, key, tnow)]
        interval == Max(interval_seconds, 0)
    IN  IF key \notin DOMAIN tracker THEN stamped
        ELSE IF interval <= 0 THEN stamped
        ELSE IF tnow - tracker[key] > interval THEN stamped
        ELSE [run |-> FALSE, tracker |-> tracker]

should_run_cleanup_without_stamp(tracker, key, tnow, interval_seconds) ==
    LET interval == Max(interval_seconds, 0)
    IN  [run |-> \/ key \notin DOMAIN tracker
                 \/ interval <= 0
                 \/ tnow - tracker[key] >= interval,
         tracker |-> tracker]

should_run_cleanup(tracker, key, tnow, interval_seconds) ==
    LET stamped == [run |-> TRUE, tracker |-> MapPut(tracker, key, tnow)]
        interval == Max(interval_seconds, 0)
    IN  IF key \notin DOMAIN tracker THEN stamped
        ELSE IF interval <= 0 THEN stamped
        ELSE IF tnow - tracker[key] >= interval THEN stamped
        ELSE [run |-> FALSE, tracker |-> tracker]

(* MongoDBManager._cleanup_timeseries_collection(collection, database_name) *)

cleanup_timeseries_collection(M) ==
    LET interval == settings.expiration_cleanup_interval_seconds
        r == should_run_cleanup(M.timeseries_cleanup_tracker, M.t.name, now, interval)
        M1 == [M EXCEPT !.t.snow = now]
        M2 == [M1 EXCEPT !.t.last_run = LastRun(M.timeseries_cleanup_tracker, M.t.name)]
    IN  IF interval <= 0
        THEN Await([M1 EXCEPT !.t.sweeps = @ + 1], "cts_delete_many", M.t.collection.db)
        ELSE IF r.run
        THEN Await([M2 EXCEPT !.timeseries_cleanup_tracker = r.tracker,
                              !.t.sweeps = @ + 1],
                   "cts_delete_many", M.t.collection.db)
        ELSE Return(M2)

cleanup_timeseries_collection_deleted_raising(M) ==
    IF M.t.resp.st # "ok" THEN Raise(M, "PyMongoError") ELSE Return(M)

cleanup_timeseries_collection_deleted(M) == Return(M)

----------------------------------------------------------------------------
(* MongoDBManager.get_timeseries_collection_for_database(database_name) *)

get_timeseries_collection_for_database(M) ==
    IF M.t.name \in DOMAIN M.collection_cache
    THEN cleanup_timeseries_collection(
             Push([M EXCEPT !.t.collection = M.collection_cache[M.t.name]], "gts_clean"))
    ELSE get_database(Push(M, "gts_db"))

get_timeseries_collection_database(M) ==
    ensure_timeseries_collection(Push(M, "gts_ens"))

get_timeseries_collection_ensured(M) ==
    cleanup_timeseries_collection(Push(M, "gts_clean"))

get_timeseries_collection_return(M) ==
    Return([M EXCEPT !.t.result.coll = M.t.collection])

----------------------------------------------------------------------------
(* MongoDBManager._ensure_token_collection(database), database in        *)
(* t.database                                                              *)

ensure_token_collection(M) ==
    IF M.t.database.name \in DictKeys(M.token_collection_cache)
    THEN Return([M EXCEPT !.t.collection =
                     DictGet(M.token_collection_cache, M.t.database.name)])
    ELSE Await(M, "etk_list_collection_names", M.t.database.name)

ensure_token_collection_open(M) ==
    Await([M EXCEPT !.t.collection = CollectionOf(M.t.database, api_tokens_collection)],
          "etk_create_index_hash", M.t.database.name)

ensure_token_collection_listed(M) ==
    IF M.t.resp.st # "ok"
    THEN Raise(M, "PyMongoError")
    ELSE IF api_tokens_collection \notin M.t.resp.names
    THEN Await(M, "etk_create_collection", M.t.database.name)
    ELSE ensure_token_collection_open(M)

ensure_token_collection_created(M) ==
    IF M.t.resp.st # "ok"
    THEN Raise(M, M.t.resp.st)
    ELSE ensure_token_collection_open(M)

ensure_token_collection_hash_indexed(M) ==
    IF M.t.resp.st # "ok"
    THEN Raise(M, "MongoConnectionError")
    ELSE Await(M, "etk_create_index_ttl", M.t.database.name)

ensure_token_collection_ttl_indexed(M) ==
    IF M.t.resp.st # "ok"
    THEN Raise(M, "MongoConnectionError")
    ELSE Return([M EXCEPT !.token_collection_cache =
                     DictPut(@, M.t.database.name, M.t.collection)])

----------------------------------------------------------------------------
(* MongoDBManager._cleanup_token_collection(collection, database_name) *)

cleanup_token_collection(M) ==
    LET interval == settings.expiration_cleanup_interval_seconds
        r == should_run_cleanup(M.token_cleanup_tracker, M.t.name, now, interval)
        M1 == [M EXCEPT !.t.snow = now]
        M2 == [M1 EXCEPT !.t.last_run = LastRun(M.token_cleanup_tracker, M.t.name)]
    IN  IF interval <= 0
        THEN Await([M1 EXCEPT !.t.sweeps = @ + 1], "ctk_find", M.t.collection.db)
        ELSE IF r.run
        THEN Await([M2 EXCEPT !.token_cleanup_tracker = r.tracker,
                              !.t.sweeps = @ + 1],
                   "ctk_find", M.t.collection.db)
        ELSE Return(M2)

cleanup_token_collection_found(M) ==
    IF M.t.resp.st # "ok" THEN Return(M)
    ELSE IF M.t.resp.docs = {} THEN Return(M)
    ELSE Await([M EXCEPT !.t.expired = M.t.resp.docs],
               "ctk_delete_many", M.t.collection.db)

ForgetAll(cache, hashes) == [x \in (DOMAIN cache) \ hashes |-> cache[x]]

cleanup_token_collection_deleted_keeping(M) == Return(M)

cleanup_token_collection_deleted(M) ==
    IF M.t.resp.st # "ok" THEN Return(M)
    ELSE Return([M EXCEPT !.token_hash_cache =
                     ForgetAll(@, {doc.token_hash : doc \in M.t.expired})])

----------------------------------------------------------------------------
(* MongoDBManager.get_token_collection_for_database(database_name) *)

get_token_collection_for_database(M) ==
    IF M.t.name \in DictKeys(M.token_collection_cache)
    THEN cleanup_token_collection(
             Push([M EXCEPT !.t.collection =
                       DictGet(M.token_collection_cache, M.t.name)], "gtk_clean"))
    ELSE get_database(Push(M, "gtk_db"))

get_token_collection_database(M) ==
    ensure_token_collection(Push(M, "gtk_ens"))

get_token_collection_ensured(M) ==
    cleanup_token_collection(Push(M, "gtk_clean"))

get_token_collection_return(M) ==
    Return([M EXCEPT !.t.result.coll = M.t.collection])

(* MongoDBManager.remember_token_location / forget_token_location *)

remember_token_location(M, token_hash, database_name) ==
    [M EXCEPT !.token_hash_cache = MapPut(@, token_hash, database_name)]

forget_token_location(M, token_hash) ==
    [M EXCEPT !.token_hash_cache = MapPop(@, token_hash)]

----------------------------------------------------------------------------
(* MongoDBManager.find_token_document(token_hash), token_hash in t.h *)

DbOrder == <<"admin", "db1", "db2">>
NamesInOrder(names) == SelectSeq(DbOrder, LAMBDA d : d \in names)

Found(M, database_name) ==
    Return([M EXCEPT !.token_hash_cache = MapPut(@, M.t.h, database_name),
                     !.t.result.docs = M.t.resp.docs,
                     !.t.result.coll = M.t.collection])

RECURSIVE find_token_document_slow_loop(_)
find_token_document_slow_loop(M) ==
    IF M.t.todo = << >>
    THEN Return([M EXCEPT !.t.result.docs = {}, !.t.result.coll = NoCollection])
    ELSE LET database_name == Head(M.t.todo)
             M1 == [M EXCEPT !.t.todo = Tail(@), !.t.name = database_name]
         IN  IF \/ database_name \in DictKeys(M.token_collection_cache)
                \/ database_name \in system_databases
             THEN find_token_document_slow_loop(M1)
             ELSE IF database_name \in DOMAIN M.database_cache
             THEN Await([M1 EXCEPT !.t.database = M.database_cache[database_name]],
                        "fs_list_collection_names", database_name)
             ELSE IF M.client = NoClient
             THEN Raise(M1, "TypeError")
             ELSE Await([M1 EXCEPT !.t.database = DatabaseOf(M.client, database_name),
                                   !.database_cache = MapPut(@, database_name,
                                       DatabaseOf(M.client, database_name))],
                        "fs_list_collection_names", database_name)

find_token_document_slow(M) ==
    IF M.client = NoClient
    THEN Raise(M, "AttributeError")
    ELSE Await(M, "fs_list_database_names", "none")

find_token_document_slow_names(M) ==
    IF M.t.resp.st # "ok"
    THEN Raise(M, "PyMongoError")
    ELSE find_token_document_slow_loop([M EXCEPT !.t.todo = NamesInOrder(M.t.resp.names)])

find_token_document_slow_listed(M) ==
    IF M.t.resp.st # "ok"
    THEN Raise(M, "MongoConnectionError")
    ELSE IF api_tokens_collection \notin M.t.resp.names
    THEN find_token_document_slow_loop(M)
    ELSE ensure_token_collection(Push(M, "find_slow_ens"))

find_token_document_slow_ensured(M) ==
    Await(M, "fs_find_one", M.t.collection.db)

find_token_document_slow_probed(M) ==
    IF M.t.resp.st # "ok"
    THEN Raise(M, "MongoConnectionError")
    ELSE IF M.t.resp.docs # {}
    THEN Found(M, M.t.name)
    ELSE find_token_document_slow_loop(M)

find_token_document_medium_loop(M) ==
    IF M.t.targets = << >>
    THEN find_token_document_slow(M)
    ELSE Await([M EXCEPT !.t.targets = Tail(@),
                         !.t.name = Head(M.t.targets)[1],
                         !.t.collection = Head(M.t.targets)[2]],
               "fmed_find_one", Head(M.t.targets)[2].db)

find_token_document_medium(M) ==
    find_token_document_medium_loop([M EXCEPT !.t.targets = M.token_collection_cache])

find_token_document_medium_probed(M) ==
    IF M.t.resp.st # "ok"
    THEN Raise(M, "MongoConnectionError")
    ELSE IF M.t.resp.docs # {}
    THEN Found(M, M.t.name)
    ELSE find_token_document_medium_loop(M)

find_token_document_without_fast_path(M) ==
    IF M.client = NoClient
    THEN Raise(M, "MongoConnectionError")
    ELSE IF M.t.h \in DOMAIN M.token_hash_cache
    THEN find_token_document_medium(
             [M EXCEPT !.t.cached_database = M.token_hash_cache[M.t.h]])
    ELSE find_token_document_medium(M)

find_token_document(M) ==
    IF M.client = NoClient
    THEN Raise(M, "MongoConnectionError")
    ELSE IF M.t.h \in DOMAIN M.token_hash_cache
    THEN get_token_collection_for_database(
             Push([M EXCEPT !.t.name = M.token_hash_cache[M.t.h],
                            !.t.cached_database = M.token_hash_cache[M.t.h]],
                  "find_fast"))
    ELSE find_token_document_medium(M)

find_token_document_fast_failed(M) ==
    find_token_document_medium(forget_token_location(M, M.t.h))

find_token_document_fast_collection(M) ==
    Await(M, "ff_find_one", M.t.collection.db)

find_token_document_fast_probed(M) ==
    IF M.t.resp.st # "ok"
    THEN Raise(M, "MongoConnectionError")
    ELSE IF M.t.resp.docs # {}
    THEN Return([M EXCEPT !.t.result.docs = M.t.resp.docs,
                          !.t.result.coll = M.t.collection])
    ELSE find_token_document_medium(forget_token_location(M, M.t.h))

----------------------------------------------------------------------------
(* MongoDBManager.iter_token_collections(database_name), the filter in     *)
(* t.filter ("none": no filter)                                            *)

RECURSIVE iter_token_collections_targets(_)
iter_token_collections_targets(M) ==
    IF M.t.todo = << >>
    THEN Return(M)
    ELSE LET name == Head(M.t.todo)
             M1 == [M EXCEPT !.t.todo = Tail(@), !.t.name = name]
         IN  IF name \in M.t.seen
             THEN iter_token_collections_targets(M1)
             ELSE IF name \in DOMAIN M.database_cache
             THEN Await([M1 EXCEPT !.t.database = M.database_cache[name]],
                        "it_list_collection_names", name)
             ELSE IF M.client = NoClient
             THEN Raise(M1, "MongoConnectionError")
             ELSE Await([M1 EXCEPT !.t.database = DatabaseOf(M.client, name),
                                   !.database_cache = MapPut(@, name,
                                       DatabaseOf(M.client, name))],
                        "it_list_collection_names", name)

RECURSIVE iter_token_collections_cached(_)
iter_token_collections_cached(M) ==
    IF M.t.targets = << >>
    THEN iter_token_collections_targets(M)
    ELSE LET cached_name == Head(M.t.targets)[1]
             M1 == [M EXCEPT !.t.targets = Tail(@)]
         IN  IF M.t.filter = "none" \/ cached_name = M.t.filter
             THEN cleanup_token_collection(
                      Push([M1 EXCEPT !.t.name = cached_name,
                                      !.t.collection = Head(M.t.targets)[2]],
                           "iter_clean1"))
             ELSE iter_token_collections_cached(M1)

iter_token_collections_collect(M) ==
    [M EXCEPT !.t.result.colls = Append(@, <<M.t.name, M.t.collection>>),
              !.t.seen = @ \cup {M.t.name}]

iter_token_collections_swept_cached(M) ==
    iter_token_collections_cached(iter_token_collections_collect(M))

iter_token_collections_scan(M) ==
    iter_token_collections_cached([M EXCEPT !.t.targets = M.token_collection_cache])

iter_token_collections(M) ==
    IF M.client = NoClient
    THEN Raise(M, "MongoConnectionError")
    ELSE IF M.t.filter = "none"
    THEN Await(M, "it_list_database_names", "none")
    ELSE iter_token_collections_scan([M EXCEPT !.t.todo = <<M.t.filter>>])

iter_token_collections_names(M) ==
    IF M.t.resp.st # "ok"
    THEN Raise(M, "PyMongoError")
    ELSE iter_token_collections_scan(
             [M EXCEPT !.t.todo = SelectSeq(NamesInOrder(M.t.resp.names),
                                            LAMBDA d : d \notin system_databases)])

iter_token_collections_listed(M) ==
    IF M.t.resp.st # "ok"
    THEN Raise(M, "MongoConnectionError")
    ELSE IF api_tokens_collection \notin M.t.resp.names
    THEN iter_token_collections_targets(M)
    ELSE ensure_token_collection(Push(M, "iter_ens"))

iter_token_collections_ensured(M) ==
    cleanup_token_collection(Push(M, "iter_clean2"))

iter_token_collections_swept(M) ==
    iter_token_collections_targets(iter_token_collections_collect(M))

----------------------------------------------------------------------------
(* services/tokens.py *)

(* create_token(database, token_value, ttl): t.name, t.h, t.ttl *)
create_token(M) ==
    get_timeseries_collection_for_database(Push(M, "ct_ts"))

create_token_prepared(M) ==
    get_token_collection_for_database(Push(M, "ct_tok"))

create_token_collection(M) ==
    LET expires_at == IF M.t.ttl # 0 /\ M.t.ttl > 0 THEN now + M.t.ttl ELSE NoExpiry
        document == [token_hash |-> M.t.h, database |-> M.t.name,
                     last_used_at |-> NoExpiry,
                     expires_at |-> expires_at]
    IN  Await([M EXCEPT !.t.doc = {document}], "ct_insert_one", M.t.collection.db)

create_token_inserted_tolerating_duplicates(M) ==
    IF M.t.resp.st \in {"ok", "DuplicateKeyError"}
    THEN Return(remember_token_location(M, M.t.h, M.t.name))
    ELSE Raise(M, "TokenPersistenceError")

create_token_inserted(M) ==
    CASE M.t.resp.st = "ok" -> Return(remember_token_location(M, M.t.h, M.t.name))
      [] M.t.resp.st = "DuplicateKeyError" -> Raise(M, "TokenConflictError")
      [] OTHER -> Raise(M, "TokenPersistenceError")

(* revoke_token(database, token_id): t.name, t.id *)
revoke_token(M) ==
    get_token_collection_for_database(Push(M, "rv_tok"))

revoke_token_collection(M) ==
    Await(M, "rv_find_one_and_delete", M.t.collection.db)

revoke_token_deleted(M) ==
    IF M.t.resp.st # "ok"
    THEN Raise(M, "TokenPersistenceError")
    ELSE IF M.t.resp.docs = {}
    THEN Raise(M, "TokenNotFoundError")
    ELSE LET document == CHOOSE doc \in M.t.resp.docs : TRUE
         IN  Return(forget_token_location(M, document.token_hash))

(* fetch_token_metadata(token): the hash of the token in t.h *)
fetch_token_metadata(M) ==
    find_token_document(Push(M, "meta_find"))

fetch_token_metadata_found(M) ==
    IF M.t.result.docs = {}
    THEN Raise(M, "TokenNotFoundError")
    ELSE Await([M EXCEPT !.t.doc = M.t.result.docs, !.t.collection = M.t.result.coll,
                         !.t.snow = now],
               "meta_update_one", M.t.result.coll.db)

fetch_token_metadata_updated(M) ==
    IF M.t.resp.st # "ok"
    THEN Raise(M, "TokenPersistenceError")
    ELSE Return(M)

----------------------------------------------------------------------------
(* dependencies.get_timeseries_collection followed by                     *)
(* services/records.py create_record(collection, payload)                 *)

model_dump(timestamp, expires_in_seconds) ==
    [timestamp |-> timestamp, expires_in_seconds |-> expires_in_seconds]

create_record_request(M) ==
    get_timeseries_collection_for_database(Push(M, "cr_coll"))

create_record(M) ==
    LET payload == model_dump(now, M.t.ttl)
        ttl == IF "ttl" \in DOMAIN payload THEN payload["ttl"] ELSE 0
        expires_at == IF ttl # 0 /\ ttl > 0 THEN payload.timestamp + ttl ELSE NoExpiry
        document == [via |-> M.t.name, timestamp |-> payload.timestamp,
                     expires_in_seconds |-> payload.expires_in_seconds,
                     expires_at |-> expires_at]
    IN  Await([M EXCEPT !.t.doc = {document}], "cr_insert_one", M.t.collection.db)

create_record_inserted(M) ==
    IF M.t.resp.st # "ok"
    THEN Raise(M, "RecordPersistenceError")
    ELSE Await(M, "cr_find_one", M.t.collection.db)

create_record_read(M) ==
    IF M.t.resp.st # "ok"
    THEN Raise(M, "PyMongoError")
    ELSE Return([M EXCEPT !.t.result.docs = M.t.resp.docs])

----------------------------------------------------------------------------
(* dependencies.py: get_token_context(authorization, database_override),   *)
(* the bearer token in t.h (a stored token is named by its hash), the      *)
(* stripped override header in t.filter ("none": absent or blank); the     *)
(* database of the context it returns in t.name                            *)

get_token_context(M) ==
    LET override == M.t.filter
    IN  IF M.t.h = api_admin_token
        THEN Return([M EXCEPT !.t.name = IF override # "none" THEN override
                                         ELSE mongodb_database])
        ELSE fetch_token_metadata(Push(M, "ctx_meta"))

get_token_context_resolved_trusting_override(M) ==
    LET override == M.t.filter
        metadata == CHOOSE doc \in M.t.result.docs : TRUE
    IN  Return([M EXCEPT !.t.name = IF override # "none" THEN override
                                     ELSE metadata.database])

get_token_context_resolved(M) ==
    LET override == M.t.filter
        metadata == CHOOSE doc \in M.t.result.docs : TRUE
    IN  IF override # "none" /\ override # metadata.database
        THEN Raise(M, "HTTP_403_FORBIDDEN")
        ELSE Return([M EXCEPT !.t.name = metadata.database])

(* get_timeseries_collection(context = Depends(get_token_context)) *)

get_timeseries_collection(M) == get_token_context(Push(M, "dep_ctx"))

get_timeseries_collection_context(M) ==
    get_timeseries_collection_for_database(Push(M, "dep_coll"))

----------------------------------------------------------------------------
(* main.py: lifespan(app).  The generator runs to its yield at startup;    *)
(* the server resumes it at shutdown                                       *)
lifespan(M) ==
    connect(Push(M, "life_connect"))

lifespan_started(M) ==
    [M EXCEPT !.t.pc = "life_yield", !.t.resp = NoResp]

lifespan_shutdown_without_close(M) == Return(M)

lifespan_shutdown(M) ==
    close(Push(M, "life_close"))

----------------------------------------------------------------------------
(* Return to the caller: the statement after each call site *)

Return(M) ==
    LET s == Head(M.t.site)
        M1 == [M EXCEPT !.t.site = Tail(@)]
    IN  CASE s = "top" -> Done(M1, "ok")
          [] s = "gts_db" -> get_timeseries_collection_database(M1)
          [] s = "gts_ens" -> get_timeseries_collection_ensured(M1)
          [] s = "gts_clean" -> get_timeseries_collection_return(M1)
          [] s = "ets_idx" -> ensure_timeseries_collection_cache(M1)
          [] s = "gtk_db" -> get_token_collection_database(M1)
          [] s = "gtk_ens" -> get_token_collection_ensured(M1)
          [] s = "gtk_clean" -> get_token_collection_return(M1)
          [] s = "find_fast" -> find_token_document_fast_collection(M1)
          [] s = "find_slow_ens" -> find_token_document_slow_ensured(M1)
          [] s = "iter_clean1" -> iter_token_collections_swept_cached(M1)
          [] s = "iter_ens" -> iter_token_collections_ensured(M1)
          [] s = "iter_clean2" -> iter_token_collections_swept(M1)
          [] s = "ct_ts" -> create_token_prepared(M1)
          [] s = "ct_tok" -> create_token_collection(M1)
          [] s = "rv_tok" -> revoke_token_collection(M1)
          [] s = "meta_find" -> fetch_token_metadata_found(M1)
          [] s = "cr_coll" -> create_record(M1)
          [] s = "ctx_meta" -> get_token_context_resolved(M1)
          [] s = "dep_ctx" -> get_timeseries_collection_context(M1)
          [] s = "dep_coll" -> Return(M1)
          [] s = "life_connect" -> lifespan_started(M1)
          [] s = "life_close" -> Return(M1)

(* An exception leaves the frames it passes through; the handlers are the  *)
(* except clauses around the call sites                                    *)
Raise(M, exc) ==
    IF M.t.site = << >>
    THEN Done(M, exc)
    ELSE LET s == Head(M.t.site)
             M1 == [M EXCEPT !.t.site = Tail(@)]
         IN  CASE s = "top" -> Done(M1, exc)
               [] s = "find_fast" /\ exc = "MongoConnectionError" ->
                      find_token_document_fast_failed(M1)
               [] s \in {"ct_ts", "ct_tok", "rv_tok", "meta_find"}
                    /\ exc = "MongoConnectionError" ->
                      Raise(M1, "TokenPersistenceError")
               [] s = "ctx_meta" /\ exc = "TokenNotFoundError" ->
                      Raise(M1, "HTTP_401_UNAUTHORIZED")
               [] s = "ctx_meta" /\ exc = "TokenPersistenceError" ->
                      Raise(M1, "HTTP_503_SERVICE_UNAVAILABLE")
               [] s = "dep_coll" /\ exc = "MongoConnectionError" ->
                      Raise(M1, "HTTP_503_SERVICE_UNAVAILABLE")
               [] OTHER -> Raise(M1, exc)

(* The coroutine resumes with the response of the call it awaited *)
Continue(M) ==
    LET pc == M.t.pc
    IN  CASE pc = "server_info" -> connect_probed(M)
          [] pc = "gd_list_database_names" -> get_database_listed(M)
          [] pc = "ets_list_collection_names" -> ensure_timeseries_collection_listed(M)
          [] pc = "ets_create_collection" -> ensure_timeseries_collection_created(M)
          [] pc = "ei_index_information" -> ensure_indexes_inspected(M)
          [] pc = "ei_create_index" -> ensure_indexes_created(M)
          [] pc = "ei_drop_index" -> ensure_indexes_dropped(M)
          [] pc = "ei_recreate_index" -> ensure_indexes_created(M)
          [] pc = "ei_drop_ttl" -> ensure_indexes_ttl_dropped(M)
          [] pc = "cts_delete_many" -> cleanup_timeseries_collection_deleted(M)
          [] pc = "etk_list_collection_names" -> ensure_token_collection_listed(M)
          [] pc = "etk_create_collection" -> ensure_token_collection_created(M)
          [] pc = "etk_create_index_hash" -> ensure_token_collection_hash_indexed(M)
          [] pc = "etk_create_index_ttl" -> ensure_token_collection_ttl_indexed(M)
          [] pc = "ctk_find" -> cleanup_token_collection_found(M)
          [] pc = "ctk_delete_many" -> cleanup_token_collection_deleted(M)
          [] pc = "ff_find_one" -> find_token_document_fast_probed(M)
          [] pc = "fmed_find_one" -> find_token_document_medium_probed(M)
          [] pc = "fs_list_database_names" -> find_token_document_slow_names(M)
          [] pc = "fs_list_collection_names" -> find_token_document_slow_listed(M)
          [] pc = "fs_find_one" -> find_token_document_slow_probed(M)
          [] pc = "it_list_database_names" -> iter_token_collections_names(M)
          [] pc = "it_list_collection_names" -> iter_token_collections_listed(M)
          [] pc = "ct_insert_one" -> create_token_inserted(M)
          [] pc = "rv_find_one_and_delete" -> revoke_token_deleted(M)
          [] pc = "meta_update_one" -> fetch_token_metadata_updated(M)
          [] pc = "cr_insert_one" -> create_record_inserted(M)
          [] pc = "cr_find_one" -> create_record_read(M)
          [] pc = "life_yield" -> lifespan_shutdown(M)

----------------------------------------------------------------------------
(* The document store.  Store(...) is its state; StoreOutcomes(tk) are the *)
(* outcomes the call awaited by task tk can have: the response and the     *)
(* store after it.  Every call can also fail and change nothing.           *)

Store ==
    [colls |-> srvColls, idx |-> srvIdx, tokidx |-> srvTokIdx, meas |-> srvMeas,
     tok |-> srvTok, probed |-> probed, ids |-> nextId]

Ok == [NoResp EXCEPT !.st = "ok"]
Failed(st) == [NoResp EXCEPT !.st = st]
Outcome(resp, S) == [resp |-> resp, S |-> S, fault |-> FALSE]
Fault(resp, S) == [resp |-> resp, S |-> S, fault |-> TRUE]

Expired(docs, tnow) == {doc \in docs : doc.expires_at # NoExpiry /\ doc.expires_at <= tnow}
Projection(docs) == {[id |-> doc.id, token_hash |-> doc.token_hash] : doc \in docs}

server_info(S, c) == {Outcome(Ok, [S EXCEPT !.probed = @ \cup {c}])}

list_database_names(S) ==
    {Outcome([Ok EXCEPT !.names = {d \in ServerNames : S.colls[d] # {}}], S)}

list_collection_names(S, db) ==
    {Outcome([Ok EXCEPT !.names = S.colls[db]], S)}

create_collection(S, db, coll) ==
    IF coll \in S.colls[db]
    THEN {Outcome(Failed("CollectionInvalid"), S)}
    ELSE {Outcome(Ok, [S EXCEPT !.colls[db] = @ \cup {coll}])}

index_information(S, db) ==
    {Outcome([Ok EXCEPT !.idx = S.idx[db]], S)}

create_index(S, db, name, info) ==
    IF name \in DOMAIN S.idx[db] /\ S.idx[db][name] # info
    THEN {Outcome(Failed("PyMongoError"), S)}
    ELSE {Outcome(Ok, [S EXCEPT !.idx[db] = MapPut(@, name, info),
                                !.colls[db] = @ \cup {mongodb_collection}])}

drop_index(S, db, name) ==
    IF name \notin DOMAIN S.idx[db]
    THEN {Outcome(Failed("PyMongoError"), S)}
    ELSE {Outcome(Ok, [S EXCEPT !.idx[db] = MapPop(@, name)])}

create_token_index(S, db, name) ==
    IF /\ name = "token_hash_1"
       /\ \E a, b \in S.tok[db] : a # b /\ a.token_hash = b.token_hash
    THEN {Outcome(Failed("PyMongoError"), S)}
    ELSE {Outcome(Ok, [S EXCEPT !.tokidx[db] = @ \cup {name},
                                !.colls[db] = @ \cup {api_tokens_collection}])}

delete_expired_measurements(S, db, tnow) ==
    {Outcome(Ok, [S EXCEPT !.meas[db] = @ \ Expired(@, tnow)])}

find_expired_tokens(S, db, tnow) ==
    {Outcome([Ok EXCEPT !.docs = Projection(Expired(S.tok[db], tnow))], S)}

delete_tokens_by_id(S, db, ids) ==
    {Outcome(Ok, [S EXCEPT !.tok[db] = {doc \in @ : doc.id \notin ids}])}

find_one_token(S, db, token_hash) ==
    LET hits == {doc \in S.tok[db] : doc.token_hash = token_hash}
    IN  IF hits = {} THEN {Outcome(Ok, S)}
        ELSE {Outcome([Ok EXCEPT !.docs = {doc}], S) : doc \in hits}

insert_token(S, db, document) ==
    IF /\ "token_hash_1" \in S.tokidx[db]
       /\ \E doc \in S.tok[db] : doc.token_hash = document.token_hash
    THEN {Outcome(Failed("DuplicateKeyError"), S)}
    ELSE LET stored == [id |-> S.ids + 1,
                        token_hash |-> document.token_hash,
                        database |-> document.database,
                        last_used_at |-> document.last_used_at,
                        expires_at |-> document.expires_at]
         IN  {Outcome(Ok, [S EXCEPT !.tok[db] = @ \cup {stored},
                                    !.colls[db] = @ \cup {api_tokens_collection},
                                    !.ids = @ + 1])}

find_one_and_delete_token(S, db, id) ==
    LET hits == {doc \in S.tok[db] : doc.id = id}
    IN  {Outcome([Ok EXCEPT !.docs = hits], [S EXCEPT !.tok[db] = @ \ hits])}

update_last_used(S, db, id, tnow) ==
    {Outcome(Ok, [S EXCEPT !.tok[db] =
        {IF doc.id = id THEN [doc EXCEPT !.last_used_at = tnow] ELSE doc : doc \in @}])}

insert_measurement(S, db, document) ==
    {Outcome(Ok, [S EXCEPT !.meas[db] = @ \cup {document},
                           !.colls[db] = @ \cup {mongodb_collection}])}

find_one_measurement(S, db, document) ==
    {Outcome([Ok EXCEPT !.docs = {document} \cap S.meas[db]], S)}

TheDoc(tk) == CHOOSE doc \in tk.doc : TRUE

StoreSucceeds(tk, S) ==
    LET pc == tk.pc
    IN  CASE pc = "server_info" -> server_info(S, tk.probe)
          [] pc \in {"gd_list_database_names", "fs_list_database_names",
                     "it_list_database_names"} -> list_database_names(S)
          [] pc \in {"ets_list_collection_names", "etk_list_collection_names",
                     "fs_list_collection_names", "it_list_collection_names"} ->
                 list_collection_names(S, tk.database.name)
          [] pc = "ets_create_collection" ->
                 create_collection(S, tk.database.name, mongodb_collection)
          [] pc = "etk_create_collection" ->
                 create_collection(S, tk.database.name, api_tokens_collection)
          [] pc = "ei_index_information" -> index_information(S, tk.collection.db)
          [] pc \in {"ei_create_index", "ei_recreate_index"} ->
                 create_index(S, tk.collection.db, time_index_name, PlainIndex)
          [] pc = "ei_drop_index" -> drop_index(S, tk.collection.db, time_index_name)
          [] pc = "ei_drop_ttl" ->
                 drop_index(S, tk.collection.db, ExistingTtlName(tk.idx))
          [] pc = "cts_delete_many" ->
                 delete_expired_measurements(S, tk.collection.db, tk.snow)
          [] pc = "etk_create_index_hash" ->
                 create_token_index(S, tk.collection.db, "token_hash_1")
          [] pc = "etk_create_index_ttl" ->
                 create_token_index(S, tk.collection.db, "expires_at_ttl")
          [] pc = "ctk_find" -> find_expired_tokens(S, tk.collection.db, tk.snow)
          [] pc = "ctk_delete_many" ->
                 delete_tokens_by_id(S, tk.collection.db, {doc.id : doc \in tk.expired})
          [] pc \in {"ff_find_one", "fmed_find_one", "fs_find_one"} ->
                 find_one_token(S, tk.collection.db, tk.h)
          [] pc = "ct_insert_one" -> insert_token(S, tk.collection.db, TheDoc(tk))
          [] pc = "rv_find_one_and_delete" ->
                 find_one_and_delete_token(S, tk.collection.db, tk.id)
          [] pc = "meta_update_one" ->
                 update_last_used(S, tk.collection.db, TheDoc(tk).id, tk.snow)
          [] pc = "cr_insert_one" -> insert_measurement(S, tk.collection.db, TheDoc(tk))
          [] pc = "cr_find_one" -> find_one_measurement(S, tk.collection.db, TheDoc(tk))

StoreFails(tk, S) ==
    IF tk.pc = "server_info"
    THEN {Fault(Failed("ServerSelectionTimeoutError"), S), Fault(Failed("PyMongoError"), S)}
    ELSE {Fault(Failed("PyMongoError"), S)}

StoreOutcomes(tk, S) ==
    StoreSucceeds(tk, S) \cup (IF faults < MaxFaults THEN StoreFails(tk, S) ELSE {})

----------------------------------------------------------------------------
(* Actions *)

(* A new process: nothing connected, nothing cached *)
Constructed(interval) ==
    /\ settings = [expiration_cleanup_interval_seconds |-> interval]
    /\ fetched = [d \in Tenants |-> NoExpiry]
    /\ client = NoClient
    /\ database_cache = EmptyMap
    /\ collection_cache = EmptyMap
    /\ token_collection_cache = << >>
    /\ token_hash_cache = EmptyMap
    /\ timeseries_cleanup_tracker = EmptyMap
    /\ token_cleanup_tracker = EmptyMap
    /\ tasks = [t \in Tasks |-> IdleTask]
    /\ probed = {}
    /\ faults = 0
    /\ now = 0
    /\ nextClient = 0

(* ... against an empty store *)
Started(interval) ==
    /\ Constructed(interval)
    /\ srvColls = [d \in ServerNames |-> {}]
    /\ srvIdx = [d \in ServerNames |-> EmptyMap]
    /\ srvTokIdx = [d \in ServerNames |-> {}]
    /\ srvMeas = [d \in ServerNames |-> {}]
    /\ srvTok = [d \in ServerNames |-> {}]
    /\ nextId = 0

(* ... against the store an earlier run left behind: db1 provisioned, with *)
(* a token and a measurement that both expire at time 1                    *)
Restarted(interval) ==
    /\ Constructed(interval)
    /\ srvColls = [d \in ServerNames |->
                     IF d = "db1" THEN {mongodb_collection, api_tokens_collection}
                     ELSE {}]
    /\ srvIdx = [d \in ServerNames |->
                   IF d = "db1" THEN MapPut(EmptyMap, time_index_name, PlainIndex)
                   ELSE EmptyMap]
    /\ srvTokIdx = [d \in ServerNames |->
                      IF d = "db1" THEN {"token_hash_1", "expires_at_ttl"} ELSE {}]
    /\ srvMeas = [d \in ServerNames |->
                    IF d = "db1"
                    THEN {[via |-> "db1", timestamp |-> 0, expires_in_seconds |-> 1,
                           expires_at |-> 1]}
                    ELSE {}]
    /\ srvTok = [d \in ServerNames |->
                   IF d = "db1"
                   THEN {[id |-> 1, token_hash |-> "h1", database |-> "db1",
                          last_used_at |-> NoExpiry, expires_at |-> 1]}
                   ELSE {}]
    /\ nextId = 1

(* ... against a store in which db1's measurement collection exists with  *)
(* the indexes an earlier generation of the system may have left on it     *)
LegacyTtlIndex ==
    [key |-> "expires_at", expireAfterSeconds |-> TRUE, partialFilterExpression |-> FALSE]

ExistingIndexes ==
    UNION {{[n \in names |-> IF n = time_index_name THEN existing_index ELSE LegacyTtlIndex] :
              existing_index \in [key : {"timestamp", "metadata"},
                                  expireAfterSeconds : BOOLEAN,
                                  partialFilterExpression : BOOLEAN]} :
           names \in SUBSET {time_index_name, "expires_at_ttl", "expires_at_1"}}

Migrated(existing_indexes) ==
    /\ Constructed(CleanupInterval)
    /\ srvColls = [d \in ServerNames |-> IF d = "db1" THEN {mongodb_collection} ELSE {}]
    /\ srvIdx = [d \in ServerNames |-> IF d = "db1" THEN existing_indexes ELSE EmptyMap]
    /\ srvTokIdx = [d \in ServerNames |-> {}]
    /\ srvMeas = [d \in ServerNames |-> {}]
    /\ srvTok = [d \in ServerNames |-> {}]
    /\ nextId = 0

Init == Started(CleanupInterval)

Free(t) == tasks[t].pc \in {"idle", "done"}
InFlight(t) == ~Free(t)

(* The coroutine of a new call, before its first statement *)
Called(t, op, name, h, ttl, id, filter) ==
    [Machine(t) EXCEPT !.t = [IdleTask EXCEPT !.op = op, !.pc = "run", !.site = <<"top">>,
                                              !.name = name, !.h = h, !.ttl = ttl,
                                              !.id = id, !.filter = filter]]

(* The store executes the call a task awaits *)
StoreExec(t) ==
    /\ tasks[t].resp.st = "pending"
    /\ \E o \in StoreOutcomes(tasks[t], Store) :
          /\ tasks' = [tasks EXCEPT ![t].resp = o.resp,
                                    ![t].fault = @ \/ o.fault]
          /\ faults' = IF o.fault THEN faults + 1 ELSE faults
          /\ srvColls' = o.S.colls
          /\ srvIdx' = o.S.idx
          /\ srvTokIdx' = o.S.tokidx
          /\ srvMeas' = o.S.meas
          /\ srvTok' = o.S.tok
          /\ probed' = o.S.probed
          /\ nextId' = o.S.ids
    /\ UNCHANGED <<mgrVars, now, nextClient, settings, fetched>>

(* The event loop resumes a task whose response has arrived *)
Resume(t) ==
    /\ InFlight(t)
    /\ tasks[t].resp.st # "pending"
    /\ Commit(t, Continue(Machine(t)))
    /\ UNCHANGED <<srvVars, now, nextId, settings>>

Connect(t) ==
    /\ Free(t)
    /\ client # NoClient \/ nextClient < MaxClients
    /\ Commit(t, connect(Called(t, "connect", "none", "none", 0, 0, "none")))
    /\ UNCHANGED <<srvVars, now, nextId, settings>>

Close(t) ==
    /\ Free(t)
    /\ Commit(t, close(Called(t, "close", "none", "none", 0, 0, "none")))
    /\ UNCHANGED <<srvVars, now, nextId, settings>>

GetTimeseriesCollection(t, d) ==
    /\ Free(t)
    /\ Commit(t, get_timeseries_collection_for_database(
                     Called(t, "get_timeseries_collection", d, "none", 0, 0, "none")))
    /\ UNCHANGED <<srvVars, now, nextId, settings>>

GetTokenCollection(t, d) ==
    /\ Free(t)
    /\ Commit(t, get_token_collection_for_database(
                     Called(t, "get_token_collection", d, "none", 0, 0, "none")))
    /\ UNCHANGED <<srvVars, now, nextId, settings>>

(* No token collection holds h, and no call stands between deleting a     *)
(* token and forgetting where it was                                       *)
Absent(h) ==
    /\ \A d \in ServerNames : \A doc \in srvTok[d] : doc.token_hash # h
    /\ \A u \in Tasks : tasks[u].pc \notin {"rv_find_one_and_delete", "ctk_delete_many"}

FindTokenDocument(t, h) ==
    /\ Free(t)
    /\ Commit(t, find_token_document(
                     [Called(t, "find_token_document", "none", h, 0, 0, "none")
                          EXCEPT !.t.absent = Absent(h)]))
    /\ UNCHANGED <<srvVars, now, nextId, settings>>

IterTokenCollections(t, f) ==
    /\ Free(t)
    /\ Commit(t, iter_token_collections(
                     Called(t, "iter_token_collections", "none", "none", 0, 0, f)))
    /\ UNCHANGED <<srvVars, now, nextId, settings>>

CreateToken(t, d, h, ttl) ==
    /\ Free(t)
    /\ nextId < MaxIds
    /\ Commit(t, create_token(Called(t, "create_token", d, h, ttl, 0, "none")))
    /\ UNCHANGED <<srvVars, now, nextId, settings>>

RevokeToken(t, d, id) ==
    /\ Free(t)
    /\ Commit(t, revoke_token(Called(t, "revoke_token", d, "none", 0, id, "none")))
    /\ UNCHANGED <<srvVars, now, nextId, settings>>

FetchTokenMetadata(t, h) ==
    /\ Free(t)
    /\ Commit(t, fetch_token_metadata(
                     Called(t, "fetch_token_metadata", "none", h, 0, 0, "none")))
    /\ UNCHANGED <<srvVars, now, nextId, settings>>

CreateRecord(t, d, ttl) ==
    /\ Free(t)
    /\ Commit(t, create_record_request(
                     Called(t, "create_record", d, "none", ttl, 0, "none")))
    /\ UNCHANGED <<srvVars, now, nextId, settings>>

GetTokenContext(t, token, override) ==
    /\ Free(t)
    /\ Commit(t, get_token_context(
                     Called(t, "get_token_context", "none", token, 0, 0, override)))
    /\ UNCHANGED <<srvVars, now, nextId, settings>>

RequestCollection(t, token, override) ==
    /\ Free(t)
    /\ Commit(t, get_timeseries_collection(
                     Called(t, "request_collection", "none", token, 0, 0, override)))
    /\ UNCHANGED <<srvVars, now, nextId, settings>>

(* The server enters the lifespan context when the process starts *)
Lifespan(t) ==
    /\ tasks[t].pc = "idle"
    /\ Commit(t, lifespan(Called(t, "lifespan", "none", "none", 0, 0, "none")))
    /\ UNCHANGED <<srvVars, now, nextId, settings>>

(* The server dispatches requests while the lifespan context is open *)
Serving(t) == tasks[t].op = "lifespan" /\ tasks[t].pc = "life_yield"

(* Time passes *)
Tick ==
    /\ now < MaxTime
    /\ now' = now + 1
    /\ UNCHANGED <<mgrVars, tasks, srvVars, nextClient, nextId, settings, fetched>>

(* The store's TTL monitor acts on a token collection that has the        *)
(* expires_at_ttl index (expireAfterSeconds = 0)                           *)
TtlMonitor(d) ==
    /\ "expires_at_ttl" \in srvTokIdx[d]
    /\ Expired(srvTok[d], now) # {}
    /\ srvTok' = [srvTok EXCEPT ![d] = @ \ Expired(@, now)]
    /\ UNCHANGED <<mgrVars, tasks, srvColls, srvIdx, srvTokIdx, srvMeas, probed,
                   faults, now, nextClient, nextId, settings, fetched>>

(* One request at a time *)
Main == "t1"

(* The task that runs the lifespan context *)
Server == "t2"

(* The connection lifecycle and every operation that depends on it *)
Next ==
    \/ StoreExec(Main)
    \/ Resume(Main)
    \/ Connect(Main)
    \/ Close(Main)
    \/ \E d \in Tenants : GetTimeseriesCollection(Main, d)
    \/ \E d \in Tenants : GetTokenCollection(Main, d)
    \/ \E h \in Hashes : FindTokenDocument(Main, h)
    \/ \E f \in Tenants \cup {"none"} : IterTokenCollections(Main, f)

Spec == Init /\ [][Next]_vars

(* The measurement surface: requests authenticated for a tenant database *)
NextRec ==
    \/ StoreExec(Main)
    \/ Resume(Main)
    \/ Connect(Main)
    \/ Close(Main)
    \/ \E d \in Tenants : GetTimeseriesCollection(Main, d)
    \/ \E d \in Tenants, ttl \in Ttls : CreateRecord(Main, d, ttl)

SpecRec == Init /\ [][NextRec]_vars

(* Token authentication against a sweep interval longer than a token's life *)
NextAuth ==
    \/ StoreExec(Main)
    \/ Resume(Main)
    \/ Connect(Main)
    \/ \E h \in Hashes, ttl \in Ttls : CreateToken(Main, "db1", h, ttl)
    \/ \E h \in Hashes : FetchTokenMetadata(Main, h)
    \/ GetTimeseriesCollection(Main, "db1")
    \/ \E d \in Tenants : GetTokenCollection(Main, d)
    \/ Tick
    \/ TtlMonitor("db1")

SpecAuth == Started(LongCleanupInterval) /\ [][NextAuth]_vars

(* Collection fetches as time passes, with sweeping on every fetch        *)
(* (interval 0) or throttled                                               *)
NextSweep ==
    \/ StoreExec(Main)
    \/ Resume(Main)
    \/ Connect(Main)
    \/ Close(Main)
    \/ \E d \in Tenants : GetTimeseriesCollection(Main, d)
    \/ \E d \in Tenants : GetTokenCollection(Main, d)
    \/ Tick

SpecSweep ==
    /\ \E interval \in {0, CleanupInterval} : Restarted(interval)
    /\ [][NextSweep]_vars

(* Token lookups among tokens being created and expiring *)
NextTok ==
    \/ StoreExec(Main)
    \/ Resume(Main)
    \/ Connect(Main)
    \/ \E d \in Tenants, h \in Hashes, ttl \in Ttls : CreateToken(Main, d, h, ttl)
    \/ \E h \in Hashes : FindTokenDocument(Main, h)
    \/ Tick
    \/ \E d \in Tenants : TtlMonitor(d)

SpecTok == Init /\ [][NextTok]_vars

(* Two requests at a time: lookups racing a revocation or a sweep of the   *)
(* token an earlier run left behind                                        *)
NextRace ==
    \/ \E t \in Tasks : StoreExec(t)
    \/ \E t \in Tasks : Resume(t)
    \/ Connect(Main)
    \/ \E t \in Tasks, h \in Hashes : FindTokenDocument(t, h)
    \/ RevokeToken("t2", "db1", 1)
    \/ GetTokenCollection("t2", "db1")
    \/ Tick

SpecRace == Restarted(CleanupInterval) /\ [][NextRace]_vars

(* The Index Reconciler on a collection with indexes of earlier generations *)
NextIdx ==
    \/ StoreExec(Main)
    \/ Resume(Main)
    \/ Connect(Main)
    \/ Close(Main)
    \/ \E d \in Tenants : GetTimeseriesCollection(Main, d)

SpecIdx ==
    /\ \E existing_indexes \in ExistingIndexes : Migrated(existing_indexes)
    /\ [][NextIdx]_vars

(* A lookup in flight while the application reconnects *)
NextLife ==
    \/ \E t \in Tasks : StoreExec(t)
    \/ \E t \in Tasks : Resume(t)
    \/ Connect("t2")
    \/ Close("t2")
    \/ \E h \in Hashes : FindTokenDocument(Main, h)

SpecLife == Restarted(CleanupInterval) /\ [][NextLife]_vars

(* Two requests at a time, dispatched once connect() has returned: first   *)
(* fetches of the same tenant database                                     *)
Connected ==
    client # NoClient /\ \A t \in Tasks : tasks[t].pc # "server_info"

NextCreators ==
    \/ \E t \in Tasks : StoreExec(t)
    \/ \E t \in Tasks : Resume(t)
    \/ Connect(Main)
    \/ Connected /\ \E t \in Tasks : GetTimeseriesCollection(t, "db1")
    \/ Connected /\ \E t \in Tasks : GetTokenCollection(t, "db1")

SpecCreators == Init /\ [][NextCreators]_vars

(* The HTTP boundary: requests carrying a bearer token and, possibly, a    *)
(* database override                                                       *)
NextHttp ==
    \/ StoreExec(Main)
    \/ Resume(Main)
    \/ Connect(Main)
    \/ \E d \in Tenants, h \in Hashes, ttl \in Ttls : CreateToken(Main, d, h, ttl)
    \/ \E token \in Hashes \cup {api_admin_token}, override \in Tenants \cup {"none"} :
          GetTokenContext(Main, token, override)
    \/ \E token \in Hashes \cup {api_admin_token}, override \in Tenants \cup {"none"} :
          RequestCollection(Main, token, override)

SpecHttp == Init /\ [][NextHttp]_vars

(* Listing the token collections of a server on which a token collection   *)
(* may have been fetched for any database name, with a sweep on every      *)
(* fetch (interval 0)                                                      *)
NextIter ==
    \/ StoreExec(Main)
    \/ Resume(Main)
    \/ Connect(Main)
    \/ Close(Main)
    \/ \E d \in ServerNames : GetTokenCollection(Main, d)
    \/ \E f \in Tenants \cup {"none"} : IterTokenCollections(Main, f)

SpecIter == Started(0) /\ [][NextIter]_vars

(* The process from startup to shutdown: the lifespan context, and         *)
(* requests while it is open                                               *)
NextLifespan ==
    \/ \E t \in Tasks : StoreExec(t)
    \/ \E t \in Tasks : Resume(t)
    \/ Lifespan(Server)
    \/ Serving(Server) /\ \E d \in Tenants : GetTimeseriesCollection(Main, d)
    \/ Serving(Server) /\ \E d \in Tenants : GetTokenCollection(Main, d)

SpecLifespan == Init /\ [][NextLifespan]_vars

----------------------------------------------------------------------------
(* Observations on a finished call *)

Finished(t, op) == tasks[t].pc = "done" /\ tasks[t].op = op
Calls(t) == tasks[t].log
CachesEmpty ==
    /\ database_cache = EmptyMap
    /\ collection_cache = EmptyMap
    /\ token_collection_cache = << >>
    /\ token_hash_cache = EmptyMap
    /\ timeseries_cleanup_tracker = EmptyMap
    /\ token_cleanup_tracker = EmptyMap

DependentOps ==
    {"get_timeseries_collection", "get_token_collection", "find_token_document",
     "iter_token_collections"}

(* A step in which task t makes a new call of op *)
Calling(t, op) ==
    /\ Free(t)
    /\ tasks'[t] # tasks[t]
    /\ tasks'[t].op = op

----------------------------------------------------------------------------
(* C1: tenant isolation. For tenant databases D1 # D2, after any sequence *)
(* of measurement-collection fetches, sweeps, close() and connect(), a     *)
(* document inserted through the handle returned for D1 is never visible   *)
(* through the handle returned for D2: the handle returned for D, and the  *)
(* one cached under D, is the measurement collection of database D, so a   *)
(* document written by a request for D lies in D's collection only.        *)
C1_TenantIsolation ==
    /\ \A db \in ServerNames : \A doc \in srvMeas[db] : doc.via = db
    /\ \A d \in DOMAIN collection_cache :
          /\ collection_cache[d].db = d
          /\ collection_cache[d].coll = mongodb_collection
    /\ \A d \in DOMAIN database_cache : database_cache[d].name = d
    /\ \A t \in Tasks :
          /\ Finished(t, "get_timeseries_collection") /\ tasks[t].result.kind = "ok" =>
                /\ tasks[t].result.coll.db = tasks[t].name
                /\ tasks[t].result.coll.coll = mongodb_collection
          /\ Finished(t, "create_record") /\ tasks[t].result.kind = "ok" =>
                /\ tasks[t].result.docs # {}
                /\ tasks[t].result.docs \subseteq srvMeas[tasks[t].name]

C1_Witness ==
    /\ \A d \in Tenants : srvMeas[d] # {}
    /\ DOMAIN collection_cache = Tenants
    /\ nextClient > 1
    /\ \E t \in Tasks : Finished(t, "create_record") /\ tasks[t].result.kind = "ok"

----------------------------------------------------------------------------
(* C2: end-to-end token expiry. A token created with a TTL for a database  *)
(* authenticates while it is live and resolves to that database; once time *)
(* is past its expiry, any collection fetch for the database (measurement  *)
(* or token collection) purges it, and every later authentication with it  *)
(* yields not-found (stated of runs in which no store call fails).         *)
Lapsed(doc) ==
    /\ doc.expires_at # NoExpiry
    /\ fetched[doc.database] > doc.expires_at

C2_EndToEndTokenExpiry ==
    \A t \in Tasks :
        Finished(t, "fetch_token_metadata") /\ faults = 0 =>
            /\ tasks[t].result.kind = "ok" =>
                  \A doc \in tasks[t].result.docs :
                      /\ ~Lapsed(doc)
                      /\ tasks[t].result.coll.db = doc.database
            /\ \A d \in Tenants : \A doc \in srvTok[d] :
                  doc.token_hash = tasks[t].h => ~Lapsed(doc)
            /\ tasks[t].result.kind = "TokenNotFoundError" =>
                  \A d \in Tenants : \A doc \in srvTok[d] :
                      doc.token_hash # tasks[t].h

----------------------------------------------------------------------------
(* C3: a connect() whose liveness probe times out or fails raises          *)
(* ConnectionError and leaves the client handle unset.                     *)
C3_FailedConnectLeavesHandleUnset ==
    \A t \in Tasks :
        Finished(t, "connect") /\ tasks[t].fault =>
            /\ tasks[t].result.kind = "MongoConnectionError"
            /\ client = NoClient

(* C4: until some connect() has succeeded, every dependent operation fails *)
(* with ConnectionError and issues no store call.                          *)
C4_NotInitializedBeforeConnectSucceeds ==
    \A t \in Tasks :
        tasks[t].pc = "done" /\ tasks[t].op \in DependentOps /\ probed = {} =>
            /\ tasks[t].result.kind = "MongoConnectionError"
            /\ Calls(t) = {}

(* C5: after close() the client handle is unset and every cache, both      *)
(* sweep-timestamp maps included, is empty.                                *)
C5_CloseClearsAllCaches ==
    \A t \in Tasks :
        Finished(t, "close") => client = NoClient /\ CachesEmpty

(* C6: connect() on a connected manager and close() on a disconnected one  *)
(* are no-ops: the client handle and every cache stay as they are, the     *)
(* call returns normally and issues no store call.                         *)
C6_ConnectCloseIdempotent ==
    [][\A t \in Tasks :
          /\ Calling(t, "connect") /\ client # NoClient =>
                /\ UNCHANGED mgrVars
                /\ tasks'[t].pc = "done"
                /\ tasks'[t].result.kind = "ok"
                /\ tasks'[t].log = {}
          /\ Calling(t, "close") /\ client = NoClient =>
                /\ UNCHANGED mgrVars
                /\ tasks'[t].pc = "done"
                /\ tasks'[t].result.kind = "ok"
                /\ tasks'[t].log = {}]_vars

C6_Witness ==
    \E t \in Tasks :
        /\ Finished(t, "connect")
        /\ Calls(t) = {}
        /\ client # NoClient
        /\ collection_cache # EmptyMap
        /\ timeseries_cleanup_tracker # EmptyMap

----------------------------------------------------------------------------
(* C7: sweep throttling. With interval I > 0, for each tenant database and *)
(* each sweep track, a collection fetch issues exactly one delete-expired  *)
(* call when no sweep is recorded for the database or the recorded one is  *)
(* at least I old, and none when it is less than I old: counted from a     *)
(* fetch that sweeps, a second fetch less than I later adds no call and    *)
(* one at least I later adds one. _should_run_cleanup stamps the time in   *)
(* the tracker exactly when it returns true (no prior run, I <= 0, or      *)
(* now - last_run >= I) and otherwise returns false and leaves the tracker *)
(* as it is.                                                               *)
FetchOps == {"get_timeseries_collection", "get_token_collection"}

TrackerOf(op) ==
    IF op = "get_timeseries_collection" THEN timeseries_cleanup_tracker
    ELSE token_cleanup_tracker

SweepDue(t) ==
    \/ settings.expiration_cleanup_interval_seconds <= 0
    \/ tasks[t].last_run = NoExpiry
    \/ tasks[t].snow - tasks[t].last_run >= settings.expiration_cleanup_interval_seconds

Stamps(tracker, key, interval) ==
    LET r == should_run_cleanup(tracker, key, now, interval)
        due == \/ key \notin DOMAIN tracker
               \/ interval <= 0
               \/ now - tracker[key] >= interval
    IN  /\ r.run = due
        /\ r.tracker = IF due THEN MapPut(tracker, key, now) ELSE tracker

C7_SweepThrottling ==
    /\ \A t \in Tasks :
          /\ tasks[t].pc = "done"
          /\ tasks[t].op \in FetchOps
          /\ tasks[t].result.kind = "ok"
          => /\ tasks[t].sweeps = IF SweepDue(t) THEN 1 ELSE 0
             /\ settings.expiration_cleanup_interval_seconds > 0 =>
                   /\ tasks[t].name \in DOMAIN TrackerOf(tasks[t].op)
                   /\ TrackerOf(tasks[t].op)[tasks[t].name] =
                          IF SweepDue(t) THEN tasks[t].snow ELSE tasks[t].last_run
    /\ \A d \in Tenants : \A interval \in {-1, 0, 1, CleanupInterval} :
          /\ Stamps(timeseries_cleanup_tracker, d, interval)
          /\ Stamps(token_cleanup_tracker, d, interval)

C7_Witness ==
    \E t \in Tasks :
        /\ Finished(t, "get_token_collection")
        /\ tasks[t].result.kind = "ok"
        /\ settings.expiration_cleanup_interval_seconds > 0
        /\ tasks[t].last_run # NoExpiry
        /\ tasks[t].snow - tasks[t].last_run >= settings.expiration_cleanup_interval_seconds
        /\ tasks[t].sweeps = 1

----------------------------------------------------------------------------
(* C8: sweeps are best-effort. A store error raised by a delete-expired    *)
(* call on either track is swallowed: the collection fetch that ran the    *)
(* sweep still returns its handle, and no fetch that reached its sweep     *)
(* fails.                                                                  *)
SweepCalls == {"cts_delete_many", "ctk_find", "ctk_delete_many"}

C8_SweepsBestEffort ==
    [][\A t \in Tasks :
          /\ (/\ tasks[t].op \in FetchOps
              /\ tasks[t].pc \in SweepCalls
              /\ tasks[t].resp.st \notin {"pending", "ok"}
              /\ tasks'[t] # tasks[t])
             => /\ tasks'[t].pc = "done"
                /\ tasks'[t].result.kind = "ok"
                /\ tasks'[t].result.coll.db = tasks[t].name
                /\ tasks'[t].result.coll.client = client
          /\ (/\ tasks[t].pc = "done"
              /\ tasks[t].op \in FetchOps
              /\ tasks[t].result.kind # "ok")
             => tasks[t].sweeps = 0]_vars

C8_Witness ==
    \E t \in Tasks :
        /\ Finished(t, "get_token_collection")
        /\ tasks[t].fault
        /\ tasks[t].result.kind = "ok"
        /\ <<"ctk_delete_many", tasks[t].name>> \in Calls(t)
        /\ Expired(srvTok[tasks[t].name], now) # {}

----------------------------------------------------------------------------
(* C9: token fast path. When the location cache maps h to D and D's token  *)
(* collection holds the document for h, find_token_document(h) returns     *)
(* that document from D's collection, and every store call it makes        *)
(* addresses D: no other database is queried and the databases of the      *)
(* server are not enumerated (a store call on no database).                *)
HoldsToken(d, h) == {doc \in srvTok[d] : doc.token_hash = h}

----------------------------------------------------------------------------
(* C10: after the token with hash h has been swept or revoked, the next   *)
(* find_token_document(h) returns not-found (a result, not an error) and,  *)
(* when it returns, the location cache holds no entry for h: also when a   *)
(* stale entry for h existed before the lookup, and when another lookup of *)
(* h was in flight during the deletion.                                    *)
C10_CacheCoherence ==
    [][\A t \in Tasks :
          /\ tasks'[t] # tasks[t]
          /\ tasks'[t].pc = "done"
          /\ tasks'[t].op = "find_token_document"
          /\ tasks'[t].absent
          /\ ~tasks'[t].fault
          /\ client # NoClient
          => /\ tasks'[t].result.kind = "ok"
             /\ tasks'[t].result.docs = {}
             /\ tasks'[t].h \notin DOMAIN token_hash_cache']_vars

----------------------------------------------------------------------------
(* C11: when the token sweep has deleted the expired tokens of a database, *)
(* the step that resumes it removes the token_hash of each deleted token   *)
(* from the location cache: after the sweep no location-cache entry refers *)
(* to a token the sweep deleted, and none of the deleted documents is      *)
(* stored.                                                                 *)
C11_SweepForgetsDeletedTokens ==
    [][\A t \in Tasks :
          /\ tasks[t].pc = "ctk_delete_many"
          /\ tasks[t].resp.st = "ok"
          /\ tasks'[t] # tasks[t]
          => \A doc \in tasks[t].expired :
                /\ doc.token_hash \notin DOMAIN token_hash_cache'
                /\ \A stored \in srvTok'[tasks[t].collection.db] : stored.id # doc.id]_vars

C11_Witness ==
    \E t \in Tasks :
        /\ tasks[t].pc = "ctk_delete_many"
        /\ tasks[t].resp.st = "ok"
        /\ \E doc \in tasks[t].expired :
              /\ doc.token_hash \in DOMAIN token_hash_cache
              /\ token_hash_cache[doc.token_hash] = tasks[t].collection.db
        /\ srvTok[tasks[t].collection.db] = {}

----------------------------------------------------------------------------
(* C12: the Index Reconciler's create/drop calls on the time-field index   *)
(* "timestamp_1" are determined by the state it finds. If the index has    *)
(* key [(timestamp, ascending)] and neither expireAfterSeconds nor         *)
(* partialFilterExpression, the run issues no create and no drop of it (so *)
(* a second run in a row issues none); if it is absent, the run issues one *)
(* create and no drop; if its key differs or it carries expireAfterSeconds *)
(* or partialFilterExpression, the run issues one drop followed by one     *)
(* plain create. No other step issues such a call, and after a create that *)
(* succeeds the index is stored plain.                                     *)
TimeIndexCalls == {"ei_create_index", "ei_drop_index", "ei_recreate_index"}

Moves(t) == tasks'[t].pc # tasks[t].pc

C12_TimeIndexReconciliation ==
    [][\A t \in Tasks :
          /\ (/\ tasks[t].pc = "ei_index_information"
              /\ tasks[t].resp.st = "ok"
              /\ tasks'[t] # tasks[t])
             => LET existing_indexes == tasks[t].resp.idx
                    found == existing_indexes[time_index_name]
                IN  IF time_index_name \notin DOMAIN existing_indexes
                    THEN tasks'[t].pc = "ei_create_index"
                    ELSE IF \/ found.key # "timestamp"
                            \/ found.expireAfterSeconds
                            \/ found.partialFilterExpression
                    THEN tasks'[t].pc = "ei_drop_index"
                    ELSE tasks'[t].pc \notin TimeIndexCalls
          /\ (tasks[t].pc = "ei_drop_index" /\ tasks[t].resp.st = "ok" /\ tasks'[t] # tasks[t])
             => tasks'[t].pc = "ei_recreate_index"
          /\ (tasks[t].pc \in {"ei_create_index", "ei_recreate_index"} /\ Moves(t))
             => tasks'[t].pc \notin TimeIndexCalls
          /\ (Moves(t) /\ tasks'[t].pc \in {"ei_create_index", "ei_drop_index"})
             => tasks[t].pc = "ei_index_information"
          /\ (Moves(t) /\ tasks'[t].pc = "ei_recreate_index")
             => tasks[t].pc = "ei_drop_index"
          /\ (/\ tasks[t].pc \in {"ei_create_index", "ei_recreate_index"}
              /\ tasks[t].resp.st = "pending"
              /\ tasks'[t].resp.st = "ok")
             => srvIdx'[tasks[t].collection.db][time_index_name] = PlainIndex]_vars

C12_Witness ==
    \E t \in Tasks :
        /\ Finished(t, "get_timeseries_collection")
        /\ tasks[t].result.kind = "ok"
        /\ {<<"ei_drop_index", "db1">>, <<"ei_recreate_index", "db1">>} \subseteq Calls(t)
        /\ srvIdx["db1"][time_index_name] = PlainIndex

----------------------------------------------------------------------------
(* C13: after a successful reconciler run on a measurement collection no   *)
(* index named expires_at_ttl or expires_at_1 remains, whichever of the    *)
(* two existed before the run, both included.                              *)
C13_LegacyTtlIndexesDropped ==
    \A t \in Tasks :
        /\ Finished(t, "get_timeseries_collection")
        /\ tasks[t].result.kind = "ok"
        /\ <<"ei_index_information", tasks[t].name>> \in Calls(t)
        => /\ "expires_at_ttl" \notin DOMAIN srvIdx[tasks[t].name]
           /\ "expires_at_1" \notin DOMAIN srvIdx[tasks[t].name]

----------------------------------------------------------------------------
(* C14: a store error raised by a collection- or index-management call     *)
(* made inside a measurement-collection or token-collection fetch (listing *)
(* collections, creating the collection, inspecting, creating or dropping  *)
(* an index) ends the fetch at once with ConnectionError: it reaches the   *)
(* caller wrapped, never as the raw store error, and is not retried.       *)
ManagementCalls ==
    {"ets_list_collection_names", "ets_create_collection", "ei_index_information",
     "ei_create_index", "ei_drop_index", "ei_recreate_index", "ei_drop_ttl",
     "etk_list_collection_names", "etk_create_collection",
     "etk_create_index_hash", "etk_create_index_ttl"}

C14_ManagementErrorsWrapped ==
    [][\A t \in Tasks :
          /\ tasks[t].op \in FetchOps
          /\ tasks[t].pc \in ManagementCalls
          /\ tasks[t].resp.st = "PyMongoError"
          /\ tasks'[t] # tasks[t]
          => /\ tasks'[t].pc = "done"
             /\ tasks'[t].result.kind = "MongoConnectionError"]_vars

----------------------------------------------------------------------------
(* C15: a ConnectionError is surfaced to the caller, never handled by      *)
(* trying something else: when the fast path of find_token_document fails  *)
(* with ConnectionError while fetching the token collection of the cached  *)
(* database, find_token_document ends with that ConnectionError; it does   *)
(* not go on with the medium and slow paths.                               *)
InFastPath(t) == \E i \in DOMAIN tasks[t].site : tasks[t].site[i] = "find_fast"

C15_ConnectionErrorSurfaced ==
    [][\A t \in Tasks :
          /\ tasks[t].op = "find_token_document"
          /\ InFastPath(t)
          /\ tasks[t].pc \in {"etk_create_index_hash", "etk_create_index_ttl"}
          /\ tasks[t].resp.st = "PyMongoError"
          /\ tasks'[t] # tasks[t]
          => /\ tasks'[t].pc = "done"
             /\ tasks'[t].result.kind = "MongoConnectionError"]_vars

----------------------------------------------------------------------------
(* C16: concurrent creators are tolerated. When two tasks concurrently     *)
(* perform the first fetch of the same tenant database's measurement       *)
(* collection or token collection and no store call fails for a reason of  *)
(* its own, both fetches succeed, the collection exists, and the cache     *)
(* holds its handle.                                                       *)
C16_ConcurrentCreatorsTolerated ==
    \A t \in Tasks :
        /\ tasks[t].pc = "done"
        /\ tasks[t].op \in FetchOps
        /\ Calls(t) # {}
        /\ faults = 0
        => /\ tasks[t].result.kind = "ok"
           /\ tasks[t].op = "get_timeseries_collection" =>
                 /\ mongodb_collection \in srvColls[tasks[t].name]
                 /\ tasks[t].name \in DOMAIN collection_cache
           /\ tasks[t].op = "get_token_collection" =>
                 /\ api_tokens_collection \in srvColls[tasks[t].name]
                 /\ tasks[t].name \in DictKeys(token_collection_cache)

----------------------------------------------------------------------------
(* C17: measurement expiry round trip. A measurement created with          *)
(* expires_in_seconds = N > 0 and timestamp T is stored with               *)
(* expires_at = T + N; a measurement created with no TTL (omitted or 0) is *)
(* stored with no expires_at.                                              *)
C17_MeasurementExpiryRoundTrip ==
    \A db \in ServerNames : \A doc \in srvMeas[db] :
        doc.expires_at = IF doc.expires_in_seconds > 0
                         THEN doc.timestamp + doc.expires_in_seconds
                         ELSE NoExpiry

----------------------------------------------------------------------------
(* C18: a non-admin bearer token only ever reaches its own tenant.         *)
(* get_token_context resolves a non-admin token to the database recorded   *)
(* in its token document, which is the database whose collection holds the *)
(* document; a database override naming another database is rejected with  *)
(* 403 and never changes the resolved database; only the admin token       *)
(* selects the database through the override.                              *)
C18_TokenReachesOwnTenantOnly ==
    \A t \in Tasks :
        Finished(t, "get_token_context") =>
            LET token == tasks[t].h
                override == tasks[t].filter
                kind == tasks[t].result.kind
                docs == tasks[t].result.docs
            IN  /\ token = api_admin_token =>
                      /\ kind = "ok"
                      /\ tasks[t].name = IF override # "none" THEN override
                                         ELSE mongodb_database
                /\ token # api_admin_token /\ kind = "ok" =>
                      /\ docs # {}
                      /\ \A doc \in docs :
                            /\ doc.token_hash = token
                            /\ tasks[t].name = doc.database
                            /\ tasks[t].result.coll.db = doc.database
                            /\ override \in {"none", doc.database}
                /\ kind = "HTTP_403_FORBIDDEN" =>
                      /\ token # api_admin_token
                      /\ override # "none"
                      /\ docs # {}
                      /\ \A doc \in docs : doc.database # override
                /\ token # api_admin_token /\ override # "none" /\ docs # {}
                      /\ (\A doc \in docs : doc.database # override)
                      /\ ~tasks[t].fault
                      => kind = "HTTP_403_FORBIDDEN"

C18_Witness ==
    \E t \in Tasks :
        /\ Finished(t, "get_token_context")
        /\ tasks[t].h \in Hashes
        /\ tasks[t].filter = "db1"
        /\ tasks[t].result.kind = "HTTP_403_FORBIDDEN"
        /\ \E doc \in tasks[t].result.docs : doc.database = "db2"

----------------------------------------------------------------------------
(* C19: at the HTTP boundary every infrastructure failure maps to 503 and  *)
(* every invalid-token lookup to 401. A request that resolves its token    *)
(* and fetches its measurement collection ends with the collection or with *)
(* 401, 403 or 503, never with an unhandled error, whatever store call     *)
(* fails; and when the token is stored nowhere and the manager has a       *)
(* client it ends with 401.                                                *)
HttpOutcomes ==
    {"ok", "HTTP_401_UNAUTHORIZED", "HTTP_403_FORBIDDEN", "HTTP_503_SERVICE_UNAVAILABLE"}

C19_HttpBoundaryMapping ==
    \A t \in Tasks :
        tasks[t].pc = "done" /\ tasks[t].op \in {"get_token_context", "request_collection"} =>
            /\ tasks[t].result.kind \in HttpOutcomes
            /\ (/\ tasks[t].h # api_admin_token
                /\ client # NoClient
                /\ ~tasks[t].fault
                /\ \A d \in ServerNames : HoldsToken(d, tasks[t].h) = {})
               => tasks[t].result.kind = "HTTP_401_UNAUTHORIZED"

----------------------------------------------------------------------------
(* C20: last_used_at is mutated on every successful authentication.        *)
(* fetch_token_metadata returns metadata only after its update_one has     *)
(* succeeded, and then the token document in the owning collection carries *)
(* the new last_used_at; if the write fails the authentication ends with   *)
(* TokenPersistenceError.                                                  *)
Authenticated(t) ==
    /\ tasks'[t] # tasks[t]
    /\ tasks'[t].op = "fetch_token_metadata"
    /\ tasks'[t].pc = "done"
    /\ tasks'[t].result.kind = "ok"

Written(t, tok) ==
    \E doc \in tok[tasks[t].collection.db] :
        doc.id = TheDoc(tasks[t]).id /\ doc.last_used_at = tasks[t].snow

C20_LastUsedWritten ==
    [][\A t \in Tasks :
          /\ Authenticated(t) =>
                /\ tasks[t].pc = "meta_update_one"
                /\ tasks[t].resp.st = "ok"
          /\ (/\ tasks[t].pc = "meta_update_one"
              /\ tasks[t].resp.st = "pending"
              /\ tasks'[t].resp.st = "ok")
             => Written(t, srvTok')
          /\ (/\ tasks[t].pc = "meta_update_one"
              /\ tasks[t].resp.st \notin {"pending", "ok"}
              /\ tasks'[t] # tasks[t])
             => /\ tasks'[t].pc = "done"
                /\ tasks'[t].result.kind = "TokenPersistenceError"]_vars

----------------------------------------------------------------------------
(* C21: token_hash is unique within its owning token collection.           *)
(* create_token with a hash the token collection of the target database    *)
(* already stores has its insert rejected and nothing stored; the call     *)
(* then ends with TokenConflictError (TokenPersistenceError if the insert  *)
(* failed for a reason of its own) and the step that ends it leaves the    *)
(* location cache as it was: remember_token_location runs only after an    *)
(* insert that succeeded.                                                  *)
Inserting(t) == tasks[t].op = "create_token" /\ tasks[t].pc = "ct_insert_one"

C21_DuplicateTokenRejected ==
    [][\A t \in Tasks :
          /\ Inserting(t) /\ tasks[t].resp.st = "pending"
             /\ tasks'[t].resp.st # "pending"
             /\ HoldsToken(tasks[t].name, tasks[t].h) # {}
             => /\ tasks'[t].resp.st # "ok"
                /\ faults' = faults => tasks'[t].resp.st = "DuplicateKeyError"
                /\ srvTok' = srvTok
          /\ Inserting(t) /\ tasks[t].resp.st \notin {"pending", "ok"} /\ Moves(t)
             => /\ tasks'[t].pc = "done"
                /\ tasks'[t].result.kind =
                      IF tasks[t].resp.st = "DuplicateKeyError"
                      THEN "TokenConflictError" ELSE "TokenPersistenceError"
                /\ token_hash_cache' = token_hash_cache
          /\ Inserting(t) /\ tasks[t].resp.st = "ok" /\ Moves(t)
             => /\ tasks'[t].result.kind = "ok"
                /\ tasks[t].h \in DOMAIN token_hash_cache'
                /\ token_hash_cache'[tasks[t].h] = tasks[t].name]_vars

C21_Witness ==
    \E t \in Tasks :
        /\ Finished(t, "create_token")
        /\ tasks[t].result.kind = "TokenConflictError"
        /\ Cardinality(HoldsToken(tasks[t].name, tasks[t].h)) = 1
        /\ ~tasks[t].fault
        /\ tasks[t].h \in DOMAIN token_hash_cache

----------------------------------------------------------------------------
(* C22: iter_token_collections with no filter returns, exactly once each,  *)
(* every cached token collection and every database of the server other    *)
(* than admin, config and local that contains a token collection; it never *)
(* returns a system database; and each collection it returns was passed to *)
(* the token sweeper (with interval 0: a find of expired tokens was issued *)
(* on its database) before the call returned.                              *)
Listed(t) == {tasks[t].result.colls[i][1] : i \in DOMAIN tasks[t].result.colls}
TokenDatabases == {d \in ServerNames : api_tokens_collection \in srvColls[d]}

C22_ListsTenantTokenCollections ==
    \A t \in Tasks :
        /\ Finished(t, "iter_token_collections")
        /\ tasks[t].filter = "none"
        /\ tasks[t].result.kind = "ok"
        => /\ Cardinality(Listed(t)) = Len(tasks[t].result.colls)
           /\ Listed(t) = DictKeys(token_collection_cache)
                             \cup (TokenDatabases \ system_databases)
           /\ \A i \in DOMAIN tasks[t].result.colls :
                 /\ tasks[t].result.colls[i][2].db = tasks[t].result.colls[i][1]
                 /\ tasks[t].result.colls[i][2].coll = api_tokens_collection
           /\ Listed(t) \cap system_databases = {}
           /\ \A d \in Listed(t) : <<"ctk_find", d>> \in Calls(t)

----------------------------------------------------------------------------
(* C28: a bearer secret identifies at most one tenant. No sequence of      *)
(* create_token calls leaves two different databases each holding a token  *)
(* document with the same token_hash.                                      *)
C28_SecretIdentifiesOneTenant ==
    \A h \in Hashes : \A d1, d2 \in ServerNames :
        HoldsToken(d1, h) # {} /\ HoldsToken(d2, h) # {} => d1 = d2

----------------------------------------------------------------------------
(* C23: the location cache is pure memoization. The answer of              *)
(* find_token_document(h) is the one a manager with empty caches gives on  *)
(* the same store, whatever the caches hold: it returns a document iff the *)
(* token collection of some non-system database stores h, the document it  *)
(* returns is the one the scan of the server's databases finds, and it     *)
(* comes from the collection that stores it (a token that expired during   *)
(* the lookup left aside).                                                 *)
Holders(h) == {d \in ServerNames \ system_databases : HoldsToken(d, h) # {}}

ColdAnswer(h) ==
    IF Holders(h) = {} THEN {}
    ELSE LET scan == NamesInOrder(Holders(h)) IN HoldsToken(Head(scan), h)

Answers(t) ==
    /\ tasks[t].op = "find_token_document"
    /\ tasks[t].pc # "done"
    /\ tasks'[t].pc = "done"
    /\ tasks'[t].result.kind = "ok"
    /\ Expired(tasks'[t].result.docs, now) = {}

C23_LocationCacheIsMemoization ==
    [][\A t \in Tasks :
          Answers(t) =>
             /\ tasks'[t].result.docs # {} <=> Holders(tasks[t].h) # {}
             /\ tasks'[t].result.docs = ColdAnswer(tasks[t].h)
             /\ tasks'[t].result.docs # {} =>
                   tasks'[t].result.docs
                      = HoldsToken(tasks'[t].result.coll.db, tasks[t].h)]_vars

----------------------------------------------------------------------------
(* C24: process lifecycle ordering. A request is dispatched only after the *)
(* connect() of the lifespan context has returned successfully (the probe  *)
(* of the current client succeeded); close() runs exactly once, in the     *)
(* step that resumes the context at shutdown, and only there; a connect()  *)
(* that fails at startup ends the context with the error, and close() is   *)
(* not called.                                                             *)
RequestOps == {"get_timeseries_collection", "get_token_collection"}

C24_LifecycleOrdering ==
    [][/\ \A op \in RequestOps : Calling(Main, op) =>
             /\ <<"server_info", "none">> \in Calls(Server)
             /\ client # NoClient
             /\ client \in probed
       /\ client # NoClient /\ client' = NoClient =>
             tasks[Server].pc = "life_yield" /\ tasks'[Server].pc = "done"
       /\ tasks[Server].pc = "life_yield" /\ Moves(Server) =>
             /\ tasks'[Server].pc = "done"
             /\ tasks'[Server].result.kind = "ok"
             /\ client' = NoClient
       /\ tasks[Server].pc = "done" => tasks'[Server] = tasks[Server]
       /\ tasks[Server].pc = "server_info" /\ Moves(Server)
          /\ tasks[Server].resp.st # "ok" =>
             /\ tasks'[Server].pc = "done"
             /\ tasks'[Server].result.kind =
                   IF tasks[Server].resp.st = "ServerSelectionTimeoutError"
                   THEN "MongoConnectionError" ELSE tasks[Server].resp.st
             /\ client' = client]_vars

C24_Witness ==
    /\ Finished(Server, "lifespan")
    /\ tasks[Server].result.kind = "ok"
    /\ client = NoClient
    /\ Finished(Main, "get_timeseries_collection")
    /\ tasks[Main].result.kind = "ok"

----------------------------------------------------------------------------
(* C25: an expired token never authenticates. No find_one issued by        *)
(* find_token_document (fast, medium or slow path) yields a token document *)
(* whose expires_at is at or before the current time, and no lookup        *)
(* returns one, whether or not the throttled token sweep ran.              *)
FindOneCalls == {"ff_find_one", "fmed_find_one", "fs_find_one"}

C25_ExpiredTokenNeverReturned ==
    [][\A t \in Tasks :
          tasks[t].op = "find_token_document" =>
             /\ tasks[t].pc \in FindOneCalls /\ tasks[t].resp.st = "pending"
                /\ tasks'[t].resp.st = "ok"
                => Expired(tasks'[t].resp.docs, now) = {}
             /\ tasks[t].pc # "done" /\ tasks'[t].pc = "done"
                /\ tasks'[t].result.kind = "ok"
                => Expired(tasks'[t].result.docs, now) = {}]_vars

----------------------------------------------------------------------------
(* C26: no handle outlives its connection. In every reachable state, also  *)
(* when a token lookup was suspended on store I/O while close() ran, an    *)
(* unset client handle implies that the database cache, the measurement-   *)
(* collection cache and the token-collection cache are empty.              *)
C26_NoHandleOutlivesConnection ==
    client = NoClient =>
        /\ database_cache = EmptyMap
        /\ collection_cache = EmptyMap
        /\ token_collection_cache = << >>

----------------------------------------------------------------------------
(* C27: a collection handle is cached only after its ensure step           *)
(* succeeded. A database is a key of the measurement-collection cache only *)
(* if its measurement collection exists with the plain time index, and a   *)
(* key of the token-collection cache only if its token collection exists   *)
(* with the unique token_hash index and the TTL index; the step that       *)
(* resumes a failed management call caches nothing, a fetch that failed    *)
(* leaves its database out of the cache, and a fetch for a database that   *)
(* is not cached starts the ensure from its first call.                    *)
Ensured(d) ==
    /\ mongodb_collection \in srvColls[d]
    /\ time_index_name \in DOMAIN srvIdx[d]
    /\ srvIdx[d][time_index_name] = PlainIndex

TokenEnsured(d) ==
    /\ api_tokens_collection \in srvColls[d]
    /\ {"token_hash_1", "expires_at_ttl"} \subseteq srvTokIdx[d]

EnsureFailed(t) ==
    /\ tasks[t].pc \in ManagementCalls
    /\ tasks[t].resp.st \notin {"pending", "ok"}
    /\ ~(tasks[t].pc = "ets_create_collection" /\ tasks[t].resp.st = "CollectionInvalid")
    /\ Moves(t)

C27_CachedOnlyAfterEnsure ==
    [][/\ \A d \in DOMAIN collection_cache : Ensured(d)
       /\ \A d \in DictKeys(token_collection_cache) : TokenEnsured(d)
       /\ \A t \in Tasks :
             /\ EnsureFailed(t) =>
                   /\ collection_cache' = collection_cache
                   /\ token_collection_cache' = token_collection_cache
                   /\ tasks[t].op \in FetchOps =>
                         tasks'[t].pc = "done" /\ tasks'[t].result.kind # "ok"
             /\ Finished(t, "get_timeseries_collection")
                /\ tasks[t].result.kind # "ok"
                => tasks[t].name \notin DOMAIN collection_cache
             /\ Finished(t, "get_token_collection") /\ tasks[t].result.kind # "ok"
                => tasks[t].name \notin DictKeys(token_collection_cache)
             /\ Calling(t, "get_timeseries_collection") /\ client # NoClient
                /\ tasks'[t].name \notin DOMAIN collection_cache
                => tasks'[t].pc \in {"gd_list_database_names",
                                     "ets_list_collection_names"}
             /\ Calling(t, "get_token_collection") /\ client # NoClient
                /\ tasks'[t].name \notin DictKeys(token_collection_cache)
                => tasks'[t].pc \in {"gd_list_database_names",
                                     "etk_list_collection_names"}]_vars

C27_Witness ==
    \E t \in Tasks :
        /\ Finished(t, "get_timeseries_collection")
        /\ tasks[t].result.kind = "MongoConnectionError"
        /\ <<"ei_create_index", tasks[t].name>> \in Calls(t)
        /\ tasks[t].name \notin DOMAIN collection_cache
        /\ mongodb_collection \in srvColls[tasks[t].name]
        /\ \E d \in DictKeys(token_collection_cache) : TokenEnsured(d)

----------------------------------------------------------------------------
(* C29: the sweep debounce is atomic under interleaving. With interval     *)
(* I > 0, the step in which a task issues the delete-expired call of a     *)
(* database (the token sweep's find on the token track) is the step that   *)
(* read the last-swept time of that database, found none or one at least I *)
(* old, and stamped the current time; so of several tasks that fetch the   *)
(* same database's collection concurrently within one interval at most one *)
(* issues the call: no other task is then at a sweep call of the same      *)
(* track and database that it issued less than I ago.                      *)
TrackOf(pc) == IF pc = "cts_delete_many" THEN "timeseries" ELSE "token"
TrackerAt(pc) ==
    IF pc = "cts_delete_many" THEN timeseries_cleanup_tracker ELSE token_cleanup_tracker
StampedAt(pc) ==
    IF pc = "cts_delete_many" THEN timeseries_cleanup_tracker' ELSE token_cleanup_tracker'
Issues(t) == tasks'[t].pc \in {"cts_delete_many", "ctk_find"} /\ Moves(t)

C29_DebounceIsAtomic ==
    [][\A t \in Tasks :
          Issues(t) /\ settings.expiration_cleanup_interval_seconds > 0 =>
             LET d == tasks'[t].name
                 tracker == TrackerAt(tasks'[t].pc)
             IN  /\ \/ d \notin DOMAIN tracker
                    \/ now - tracker[d] >= settings.expiration_cleanup_interval_seconds
                 /\ d \in DOMAIN StampedAt(tasks'[t].pc)
                 /\ StampedAt(tasks'[t].pc)[d] = now
                 /\ \A u \in Tasks \ {t} :
                       ~ /\ tasks[u].pc \in SweepCalls
                         /\ TrackOf(tasks[u].pc) = TrackOf(tasks'[t].pc)
                         /\ tasks[u].name = d
                         /\ now - tasks[u].snow
                               < settings.expiration_cleanup_interval_seconds]_vars

C29_Witness ==
    \E t, u \in Tasks :
        /\ t # u
        /\ Finished(t, "get_timeseries_collection")
        /\ Finished(u, "get_timeseries_collection")
        /\ tasks[t].result.kind = "ok" /\ tasks[u].result.kind = "ok"
        /\ tasks[t].name = tasks[u].name
        /\ <<"ets_list_collection_names", tasks[t].name>> \in Calls(t) \cap Calls(u)
        /\ tasks[t].sweeps = 1 /\ <<"cts_delete_many", tasks[t].name>> \in Calls(t)
        /\ tasks[u].sweeps = 0 /\ <<"cts_delete_many", tasks[u].name>> \notin Calls(u)
        /\ settings.expiration_cleanup_interval_seconds > 0

----------------------------------------------------------------------------
(* C30: a failed sweep is retried by the next fetch. With interval I > 0,  *)
(* when the delete-expired call of a sweep (or the token sweep's find)     *)
(* fails, the sweep ends with the last-swept time of the database as it    *)
(* was before the sweep (unset if it was unset), so that the next fetch    *)
(* finds the sweep due.                                                    *)
SweepFailed(t) ==
    /\ tasks[t].pc \in SweepCalls
    /\ tasks[t].resp.st \notin {"pending", "ok"}
    /\ Moves(t)
    /\ settings.expiration_cleanup_interval_seconds > 0

C30_FailedSweepIsRetried ==
    [][\A t \in Tasks :
          SweepFailed(t) =>
             LastRun(StampedAt(tasks[t].pc), tasks[t].name) = tasks[t].last_run]_vars

====
